---- MODULE Spec2Model ----
(***************************************************************************)
(* typed-immutable-record: makeTypedFactory, recordify and fromJS of       *)
(* src/typed.factory.ts, with the TypedRecord.toJS of src/typed.record.ts. *)
(*                                                                         *)
(* JavaScript values are tagged records:                                   *)
(*   [t |-> "str", s]   a scalar          [t |-> "null"]   null            *)
(*   [t |-> "undef"]    undefined         [t |-> "obj", f] a plain object  *)
(*   [t |-> "arr", e]   a plain array     [t |-> "rec", n, f] a Record     *)
(*   [t |-> "list", e]  an Immutable.List                                  *)
(* fromJS runs as a machine with an explicit call stack, one frame per     *)
(* activation, so that recursion depth, termination and the writes of each *)
(* activation are states of the model.                                     *)
(***************************************************************************)
EXTENDS Integers, Sequences, FiniteSets, TLC

VARIABLES
    op,        \* which exported function the caller invoked
    facTree,   \* fromJS: the facTree argument
    facName,   \* fromJS: the facName argument of the root call
    template,  \* makeTypedFactory / recordify: the default value object
    obj,       \* the caller's argument object (the object graph the reference points to)
    stack,     \* fromJS: the activations, root first
    status,    \* "running", "returned", "Error" (thrown at line 135) or "TypeError"
    result,    \* the value returned to the caller, NoResult until then
    depth      \* the largest number of fromJS activations alive at once so far

vars == <<op, facTree, facName, template, obj, stack, status, result, depth>>

----------------------------------------------------------------------------
(* Values *)

S(x) == [t |-> "str", s |-> x]
Null == [t |-> "null"]
Undefined == [t |-> "undef"]
Obj(f) == [t |-> "obj", f |-> f]
Arr(e) == [t |-> "arr", e |-> e]
NoResult == [t |-> "none"]
Absent == [t |-> "absent"]

\* obj[key]: a property read of a non-null value; undefined when the key is not there
Field(o, key) ==
    IF o.t \in {"obj", "rec"} /\ key \in DOMAIN o.f THEN o.f[key] ELSE Undefined

\* Array.isArray(v)
IsArray(v) == v.t = "arr"

\* typeof v === 'object' (which holds of null too)
TypeofObject(v) == v.t \in {"obj", "arr", "null", "rec", "list"}

\* the value is truthy (null, undefined and the empty string are not)
Truthy(v) == ~(v.t \in {"null", "undef"}) /\ v # S("")

\* the working copy started empty, obj's own fields not copied
MergeNothing(o) == Obj(<<>>)

\* R.merge({}, o): a new plain object with the own properties of o; null and
\* undefined contribute none (every activation's obj is a plain object or null:
\* the root and the array entries are objects, a described field is an object or null)
Merge(o) == IF o.t = "obj" THEN Obj(o.f) ELSE Obj(<<>>)

----------------------------------------------------------------------------
(* Immutable.Record, Immutable.List and toJS *)

\* new (Record(E, name))(val): the key set is E's; a key val does not hold
\* takes E's default
ImmutableRecord(E, name, val) ==
    [t |-> "rec", n |-> name,
     f |-> [k \in DOMAIN E |->
              IF val.t \in {"obj", "rec"} /\ k \in DOMAIN val.f THEN val.f[k] ELSE E[k]]]

\* List(array)
List(e) == [t |-> "list", e |-> e]

RECURSIVE toJS(_)
\* TypedRecord.toJS: Records become plain objects and Lists plain arrays, deeply;
\* plain data is returned as it is
toJS(v) ==
    CASE v.t = "rec" -> Obj([k \in DOMAIN v.f |-> toJS(v.f[k])])
      [] v.t = "list" -> Arr([i \in 1..Len(v.e) |-> toJS(v.e[i])])
      [] OTHER -> v

----------------------------------------------------------------------------
(* makeTypedFactory and recordify *)

\* the closure building the record from the template alone
TypedFactoryNoVal(E, name, val) == ImmutableRecord(E, name, Null)

\* The TypedFactory closure of makeTypedFactory(E, name), applied to val;
\* a missing argument (undefined) becomes null
TypedFactory(E, name, val) ==
    ImmutableRecord(E, name, IF val = Undefined THEN Null ELSE val)

\* recordify with the test of val inverted
recordifyInverted(E, val, name) ==
    LET v == IF val = Undefined THEN Null ELSE val
    IN  IF Truthy(v) THEN TypedFactory(E, name, Undefined) ELSE TypedFactory(E, name, v)

\* recordify(defaultVal, val, name)
recordify(E, val, name) ==
    LET v == IF val = Undefined THEN Null ELSE val
    IN  IF Truthy(v) THEN TypedFactory(E, name, v) ELSE TypedFactory(E, name, Undefined)

----------------------------------------------------------------------------
(* Factory registries (the facTree argument) *)

PersonE == [name |-> S(""), pet |-> Arr(<<>>), master |-> Null]
PetE == [name |-> S(""), master |-> Null]
OwnerE == [name |-> S("")]

\* descriptor: {key: factory name, ...} in property order
Descriptor(keys) == [defined |-> TRUE, keys |-> keys]
NoDescriptor == [defined |-> FALSE, keys |-> <<>>]
Nested(key, fac) == [key |-> key, fac |-> fac]

\* factory: makeTypedFactory(E, name)
Factory(E, name) == [defined |-> TRUE, E |-> E, name |-> name]
NoFactory == [defined |-> FALSE, E |-> <<>>, name |-> ""]

\* the factoryTree of the documentation of fromJS: person.master is a person
DocTree ==
    [person |-> [descriptor |-> Descriptor(<<Nested("pet", "pet"), Nested("master", "person")>>),
                 factory |-> Factory(PersonE, "person")],
     pet |-> [descriptor |-> NoDescriptor, factory |-> Factory(PetE, "pet")]]

FlatTree ==
    [person |-> [descriptor |-> Descriptor(<<Nested("pet", "pet")>>),
                 factory |-> Factory(PersonE, "person")],
     pet |-> [descriptor |-> NoDescriptor, factory |-> Factory(PetE, "pet")]]

ChainTree ==
    [person |-> [descriptor |-> Descriptor(<<Nested("pet", "pet")>>),
                 factory |-> Factory(PersonE, "person")],
     pet |-> [descriptor |-> Descriptor(<<Nested("master", "owner")>>),
              factory |-> Factory(PetE, "pet")],
     owner |-> [descriptor |-> NoDescriptor, factory |-> Factory(OwnerE, "owner")]]

\* person -> pet -> person
MutualTree ==
    [person |-> [descriptor |-> Descriptor(<<Nested("pet", "pet")>>),
                 factory |-> Factory(PersonE, "person")],
     pet |-> [descriptor |-> Descriptor(<<Nested("master", "person")>>),
              factory |-> Factory(PetE, "pet")]]

\* the descriptor of person names a factory the registry does not hold
DanglingTree ==
    [person |-> [descriptor |-> Descriptor(<<Nested("pet", "dog")>>),
                 factory |-> Factory(PersonE, "person")],
     pet |-> [descriptor |-> NoDescriptor, factory |-> Factory(PetE, "pet")]]

\* an entry whose factory is undefined
NoFactoryTree ==
    [person |-> [descriptor |-> Descriptor(<<Nested("pet", "pet")>>),
                 factory |-> Factory(PersonE, "person")],
     pet |-> [descriptor |-> NoDescriptor, factory |-> NoFactory]]

Registries == {DocTree, FlatTree, ChainTree, MutualTree, DanglingTree, NoFactoryTree}
Names == {"person", "pet", "owner"}
Templates == {PersonE, PetE, OwnerE}

----------------------------------------------------------------------------
(* Inputs: plain nested data over the keys name, pet, master *)

MaxArrLen == 2

\* the plain object with the given fields, Absent ones left out
MkObj(n, p, m) ==
    LET v == [name |-> n, pet |-> p, master |-> m]
    IN  Obj([k \in {x \in DOMAIN v : v[x] # Absent} |-> v[k]])

Arrays(elems) == {Arr(e) : e \in UNION {[1..n -> elems] : n \in 0..MaxArrLen}}

\* the objects nested one level down
Leaves ==
    {MkObj(n, p, m) : n \in {Absent, S("a"), S("b")}, p \in {Absent, Null}, m \in {Absent, Null}}

\* the objects arrays hold
Entries == {MkObj(n, Absent, m) : n \in {S("a"), S("b")}, m \in {Absent, Null}}

Flat ==
    {MkObj(n, p, m) :
        n \in {Absent, S("a"), Obj([name |-> S("b")])},
        p \in {Absent, Null, S("a")} \cup Leaves \cup Arrays(Entries),
        m \in {Absent, Null} \cup Leaves}

Mid ==
    {MkObj(S("a"), p, m) :
        p \in {Absent} \cup {Arr(<<l>>) : l \in Entries},
        m \in {Absent, Null} \cup Leaves}

Deep ==
    {MkObj(S("b"), Absent, x) : x \in Mid} \cup {MkObj(Absent, Arr(<<x>>), Absent) : x \in Mid}
        \cup {MkObj(S("b"), x, Absent) : x \in Mid} \cup {MkObj(S("b"), Arr(<<x>>), Null) : x \in Mid}

Inputs == Flat \cup Deep

----------------------------------------------------------------------------
(* fromJS: the activations *)

\* one step from an object to a value it holds: the field key itself (idx = 0)
\* or the idx-th entry of the array in that field
Step(key, idx) == [key |-> key, idx |-> idx]

RECURSIVE At(_, _)
\* the value a reference reaches from the caller's object by the steps of path
At(v, path) ==
    IF path = <<>> THEN v
    ELSE LET h == Head(path)
             c == Field(v, h.key)
         IN  At(IF h.idx = 0 THEN c ELSE c.e[h.idx], Tail(path))

\* f with f[k] = v
Put(f, k, v) == [x \in DOMAIN f \cup {k} |-> IF x = k THEN v ELSE f[x]]

\* an activation fromJS(<the value at path>, facTree, name), about to run line 134
Activation(path, name) ==
    [path |-> path, facName |-> name, partialRecord |-> Undefined,
     keys |-> <<>>, mapped |-> <<>>, pc |-> "lookup"]

Top == stack[Len(stack)]

\* the obj parameter of an activation
FrameObj(fr) == At(obj, fr.path)

Running == status = "running" /\ stack # <<>>

Max(a, b) == IF a >= b THEN a ELSE b

Push(fr) ==
    /\ stack' = Append(stack, fr)
    /\ depth' = Max(depth, Len(stack) + 1)

Throw(kind) ==
    /\ status' = kind
    /\ stack' = <<>>
    /\ UNCHANGED <<op, facTree, facName, template, obj, result, depth>>

RECURSIVE SetAt(_, _, _, _)
\* v with the field key of the object at path set to x
SetAt(v, path, key, x) ==
    IF path = <<>> THEN Obj(Put(v.f, key, x))
    ELSE LET h == Head(path)
             c == v.f[h.key]
         IN  IF h.idx = 0
             THEN Obj(Put(v.f, h.key, SetAt(c, Tail(path), key, x)))
             ELSE Obj(Put(v.f, h.key,
                          Arr([c.e EXCEPT ![h.idx] = SetAt(c.e[h.idx], Tail(path), key, x)])))

\* the assignment made on obj itself instead of on the working copy
AssignFieldToObj(fr, o, key, v) ==
    [fr |-> fr, o |-> IF At(o, fr.path).t = "obj" THEN SetAt(o, fr.path, key, v) ELSE o]

\* the statement partialRecord[key] = v of activation fr, as its effect on the
\* activation and on the caller's object o
AssignField(fr, o, key, v) ==
    [fr |-> [fr EXCEPT !.partialRecord = Obj(Put(fr.partialRecord.f, key, v))], o |-> o]

\* the for-in loop moves on to the next key of the descriptor
Advance(fr) == [fr EXCEPT !.keys = Tail(fr.keys), !.mapped = <<>>, !.pc = "loop"]

\* the loop run over the keys of obj instead of the keys of the descriptor
LoopObjKeys(entry, o) ==
    IF ~entry.descriptor.defined THEN <<>>
    ELSE LET d == entry.descriptor.keys
             facOf(k) == IF \E i \in 1..Len(d) : d[i].key = k
                         THEN (CHOOSE x \in {d[i] : i \in 1..Len(d)} : x.key = k).fac
                         ELSE "undefined"
             has(k) == o.t = "obj" /\ k \in DOMAIN o.f
         IN  (IF has("name") THEN <<Nested("name", facOf("name"))>> ELSE <<>>)
               \o (IF has("pet") THEN <<Nested("pet", facOf("pet"))>> ELSE <<>>)
               \o (IF has("master") THEN <<Nested("master", facOf("master"))>> ELSE <<>>)

\* the keys for (const key in descriptor) visits, with the factory each names
LoopKeys(entry, o) == IF entry.descriptor.defined THEN entry.descriptor.keys ELSE <<>>

\* the recursion made on obj itself
SamePath(path, key, idx) == path

\* the first argument of a nested call: obj[key] (idx = 0) or its idx-th entry
ChildPath(path, key, idx) == Append(path, Step(key, idx))

\* the nested call made with the caller's own factory name
OwnName(fr) == fr.facName

\* the third argument of a nested call: descriptor[key]
ChildName(fr) == Head(fr.keys).fac

\* line 134 on a name the facTree has no entry for: facTree[facName] is
\* undefined and reading .factory of it throws a TypeError
ThrowNoEntry ==
    /\ Running /\ Top.pc = "lookup"
    /\ Top.facName \notin DOMAIN facTree
    /\ Throw("TypeError")

\* line 135: the entry is there and its factory is not
ThrowNoFactory ==
    /\ Running /\ Top.pc = "lookup"
    /\ Top.facName \in DOMAIN facTree
    /\ ~facTree[Top.facName].factory.defined
    /\ Throw("Error")

\* lines 134-138: the factory is found, the working copy and the descriptor are taken
Lookup ==
    /\ Running /\ Top.pc = "lookup"
    /\ Top.facName \in DOMAIN facTree
    /\ facTree[Top.facName].factory.defined
    /\ stack' = [stack EXCEPT ![Len(stack)] =
                    [Top EXCEPT !.partialRecord = Merge(FrameObj(Top)),
                                !.keys = LoopKeys(facTree[Top.facName], FrameObj(Top)),
                                !.pc = "loop"]]
    /\ UNCHANGED <<op, facTree, facName, template, obj, status, result, depth>>

AtKey == Running /\ Top.pc = "loop" /\ Top.keys # <<>>

\* line 142 when obj is null or undefined: obj[key] throws a TypeError
ThrowNullRead ==
    /\ AtKey
    /\ FrameObj(Top).t \in {"null", "undef"}
    /\ Throw("TypeError")

\* line 142: obj[key] is an array, the map over its entries starts
VisitArray ==
    /\ AtKey
    /\ ~(FrameObj(Top).t \in {"null", "undef"})
    /\ IsArray(Field(FrameObj(Top), Head(Top.keys).key))
    /\ stack' = [stack EXCEPT ![Len(stack)] = [Top EXCEPT !.mapped = <<>>, !.pc = "map"]]
    /\ UNCHANGED <<op, facTree, facName, template, obj, status, result, depth>>

\* line 144: fromJS(entry, facTree, descriptor[key]) for the next entry
MapEntry ==
    /\ Running /\ Top.pc = "map"
    /\ Len(Top.mapped) < Len(Field(FrameObj(Top), Head(Top.keys).key).e)
    /\ Push(Activation(ChildPath(Top.path, Head(Top.keys).key, Len(Top.mapped) + 1),
                       ChildName(Top)))
    /\ UNCHANGED <<op, facTree, facName, template, obj, status, result>>

\* lines 143-145: every entry is mapped, partialRecord[key] = List(...)
MapDone ==
    /\ Running /\ Top.pc = "map"
    /\ Len(Top.mapped) = Len(Field(FrameObj(Top), Head(Top.keys).key).e)
    /\ LET w == AssignField(Top, obj, Head(Top.keys).key, List(Top.mapped))
       IN  /\ stack' = [stack EXCEPT ![Len(stack)] = Advance(w.fr)]
           /\ obj' = w.o
    /\ UNCHANGED <<op, facTree, facName, template, status, result, depth>>

\* lines 146-147: obj[key] is no array and typeof obj[key] is 'object':
\* fromJS(obj[key], facTree, descriptor[key])
VisitObject ==
    /\ AtKey
    /\ ~(FrameObj(Top).t \in {"null", "undef"})
    /\ ~IsArray(Field(FrameObj(Top), Head(Top.keys).key))
    /\ TypeofObject(Field(FrameObj(Top), Head(Top.keys).key))
    /\ stack' = Append([stack EXCEPT ![Len(stack)] = [Top EXCEPT !.pc = "call"]],
                       Activation(ChildPath(Top.path, Head(Top.keys).key, 0), ChildName(Top)))
    /\ depth' = Max(depth, Len(stack) + 1)
    /\ UNCHANGED <<op, facTree, facName, template, obj, status, result>>

\* lines 142-148 when neither branch is taken
SkipField ==
    /\ AtKey
    /\ ~(FrameObj(Top).t \in {"null", "undef"})
    /\ ~IsArray(Field(FrameObj(Top), Head(Top.keys).key))
    /\ ~TypeofObject(Field(FrameObj(Top), Head(Top.keys).key))
    /\ stack' = [stack EXCEPT ![Len(stack)] = Advance(Top)]
    /\ UNCHANGED <<op, facTree, facName, template, obj, status, result, depth>>

\* the mapped entries collected in reverse
AddMappedFirst(mapped, rec) == <<rec>> \o mapped

\* the value the caller of an activation collects: one more mapped entry
AddMapped(mapped, rec) == Append(mapped, rec)

\* line 151: return facRef(partialRecord), to the caller or to the activation
\* that made the call (line 144 or line 147)
Return ==
    /\ Running /\ Top.pc = "loop" /\ Top.keys = <<>>
    /\ LET fac == facTree[Top.facName].factory
           rec == TypedFactory(fac.E, fac.name, Top.partialRecord)
           n == Len(stack)
       IN  IF n = 1
           THEN /\ result' = rec
                /\ status' = "returned"
                /\ stack' = <<>>
                /\ obj' = obj
           ELSE LET caller == stack[n - 1]
                    key == Head(caller.keys).key
                IN  IF caller.pc = "map"
                    THEN /\ stack' = [SubSeq(stack, 1, n - 1) EXCEPT ![n - 1] =
                                        [caller EXCEPT !.mapped = AddMapped(caller.mapped, rec)]]
                         /\ obj' = obj
                         /\ UNCHANGED <<status, result>>
                    ELSE LET w == AssignField(caller, obj, key, rec)
                         IN  /\ stack' = [SubSeq(stack, 1, n - 1) EXCEPT ![n - 1] = Advance(w.fr)]
                             /\ obj' = w.o
                             /\ UNCHANGED <<status, result>>
    /\ UNCHANGED <<op, facTree, facName, template, depth>>

----------------------------------------------------------------------------
(* makeTypedFactory and recordify as calls *)

\* makeTypedFactory(template, name)(obj), obj = Undefined for a call with no argument
CallTypedFactory ==
    /\ op = "makeTypedFactory" /\ status = "running"
    /\ result' = TypedFactory(template, "T", obj)
    /\ status' = "returned"
    /\ UNCHANGED <<op, facTree, facName, template, obj, stack, depth>>

\* recordify(template, obj, name)
CallRecordify ==
    /\ op = "recordify" /\ status = "running"
    /\ result' = recordify(template, obj, "T")
    /\ status' = "returned"
    /\ UNCHANGED <<op, facTree, facName, template, obj, stack, depth>>

----------------------------------------------------------------------------

\* the values a factory is called with: nothing, null, the template itself,
\* or a plain object
FactoryVals(E) == {Undefined, Null, Obj(E)} \cup Flat

InitFromJS ==
    /\ op = "fromJS"
    /\ facTree \in Registries
    /\ facName \in Names
    /\ template = OwnerE
    /\ obj \in Inputs
    /\ stack = <<Activation(<<>>, facName)>>
    /\ depth = 1

InitFactory ==
    /\ op \in {"makeTypedFactory", "recordify"}
    /\ facTree = FlatTree
    /\ facName = "person"
    /\ template \in Templates
    /\ obj \in FactoryVals(template)
    /\ stack = <<>>
    /\ depth = 0

Init ==
    /\ InitFromJS \/ InitFactory
    /\ status = "running"
    /\ result = NoResult

Next ==
    \/ ThrowNoEntry
    \/ ThrowNoFactory
    \/ Lookup
    \/ ThrowNullRead
    \/ VisitArray
    \/ MapEntry
    \/ MapDone
    \/ VisitObject
    \/ SkipField
    \/ Return
    \/ CallTypedFactory
    \/ CallRecordify

Spec == Init /\ [][Next]_vars

\* the calls are synchronous: a call that can take a step takes it
FairSpec == Spec /\ WF_vars(Next)

----------------------------------------------------------------------------
(* The descriptor of a registry entry *)

Terminated == status # "running"

\* the field names the descriptor of an entry holds
DescKeys(entry) ==
    IF entry.descriptor.defined
    THEN {entry.descriptor.keys[i].key : i \in 1..Len(entry.descriptor.keys)}
    ELSE {}

\* the root call found its factory
RootFound == op = "fromJS" /\ facName \in DOMAIN facTree /\ facTree[facName].factory.defined

----------------------------------------------------------------------------
(* C1 *)

\* C1: whenever an activation of fromJS, the root one or a nested one, is for a
\* factory name that is not a key of the registry, the call ends with the
\* missing-factory Error of line 135 and returns no record.
C1_MissingFactoryError ==
    [][(Running /\ Top.pc = "lookup" /\ Top.facName \notin DOMAIN facTree)
          => (status' = "Error" /\ result' = NoResult)]_vars

----------------------------------------------------------------------------
(* C3 *)

\* C3: fromJS never mutates its input: no step of a call, returning or
\* throwing, changes the caller's object or anything reachable from it.
C3_InputNeverMutated == [][obj' = obj]_vars

\* a call that replaced a nested array and a nested object in its working copy
C3_Witness ==
    /\ op = "fromJS" /\ status = "returned" /\ depth >= 2
    /\ Field(obj, "pet").t = "arr" /\ Field(result, "pet").t = "list"
    /\ Field(obj, "master").t = "obj" /\ Field(result, "master").t = "rec"

----------------------------------------------------------------------------
(* C4 *)

\* C4: when every field the root descriptor names holds a scalar, null or
\* nothing in obj, fromJS makes no nested call and the root factory receives
\* obj's fields as they are: the call returns the record of obj itself.
C4_ScalarNullAbsentUntouched ==
    (/\ RootFound /\ Terminated
     /\ \A k \in DescKeys(facTree[facName]) : Field(obj, k).t \in {"str", "null", "undef"})
        => /\ status = "returned"
           /\ depth = 1
           /\ result = TypedFactory(facTree[facName].factory.E, facTree[facName].factory.name, obj)

----------------------------------------------------------------------------
(* C5 *)

\* C5: conversion is driven by the descriptor only: every nested activation is
\* for a field the caller's descriptor names, every activation's working copy
\* holds each field its descriptor does not name exactly as obj holds it, and
\* the record returned has, for each such field, obj's value (or the
\* template's default when obj has none), nested objects and arrays included.
C5_DescriptorDriven ==
    /\ \A i \in 1..Len(stack) :
          LET fr == stack[i]
          IN  /\ i > 1 => fr.path[Len(fr.path)].key \in DescKeys(facTree[stack[i - 1].facName])
              /\ fr.pc # "lookup" =>
                    \A k \in DOMAIN fr.partialRecord.f \ DescKeys(facTree[fr.facName]) :
                        fr.partialRecord.f[k] = Field(FrameObj(fr), k)
    /\ (op = "fromJS" /\ status = "returned") =>
          \A k \in DOMAIN facTree[facName].factory.E \ DescKeys(facTree[facName]) :
              result.f[k] = IF k \in DOMAIN obj.f THEN obj.f[k]
                            ELSE facTree[facName].factory.E[k]

\* a returned record holding a nested object of a field the descriptor does not name
C5_Witness ==
    /\ op = "fromJS" /\ status = "returned" /\ depth >= 2
    /\ \E k \in DOMAIN obj.f \ DescKeys(facTree[facName]) :
          obj.f[k].t = "obj" /\ result.f[k] = obj.f[k]

----------------------------------------------------------------------------
(* The descriptor graph of a registry and the nesting of an input *)

SetMax(ns) == IF ns = {} THEN 0 ELSE CHOOSE n \in ns : \A m \in ns : m <= n

\* the factory names the descriptor of name points to
Succ(tree, name) ==
    IF name \in DOMAIN tree /\ tree[name].descriptor.defined
    THEN {tree[name].descriptor.keys[i].fac : i \in 1..Len(tree[name].descriptor.keys)}
    ELSE {}

RECURSIVE Closure(_, _, _)
Closure(tree, names, k) ==
    IF k = 0 THEN names
    ELSE Closure(tree, names \cup UNION {Succ(tree, n) : n \in names}, k - 1)

\* the names reached from name by one descriptor edge or more
Reachable(tree, name) == Closure(tree, Succ(tree, name), Cardinality(DOMAIN tree))

OnCycle(tree, name) == name \in Reachable(tree, name)

Acyclic(tree) == \A n \in DOMAIN tree : ~OnCycle(tree, n)

RECURSIVE DescDepth(_, _)
\* the number of names on the longest descriptor path from name (acyclic graphs)
DescDepth(tree, name) == 1 + SetMax({DescDepth(tree, n) : n \in Succ(tree, name)})

RECURSIVE NestDepth(_)
\* how deep objects nest in a plain value: an object counts one level more than
\* the deepest value it holds, null counts as an object, an array as its entries
NestDepth(v) ==
    CASE v.t = "obj" -> 1 + SetMax({NestDepth(v.f[k]) : k \in DOMAIN v.f})
      [] v.t = "arr" -> SetMax({Max(1, NestDepth(v.e[i])) : i \in 1..Len(v.e)})
      [] v.t = "null" -> 1
      [] OTHER -> 0

----------------------------------------------------------------------------
(* C7 *)

\* C7: when the root factory name lies on a cycle of the descriptor graph,
\* fromJS does not terminate: it never reaches the final factory call and
\* never ends.
C7_CyclicNeverTerminates ==
    (op = "fromJS" /\ OnCycle(facTree, facName)) => ~Terminated

\* C7 (amended): fromJS has no cycle protection, and none is needed on finite
\* input: a nested activation is made only for an array entry or an object
\* (null included) that obj holds, so with the root name on a descriptor cycle
\* the activations alive never outnumber the nesting depth of the input and
\* the call ends, returning or throwing.
C7_CyclicBoundedByInput ==
    /\ []((op = "fromJS" /\ OnCycle(facTree, facName)) => Len(stack) <= NestDepth(obj))
    /\ ((op = "fromJS" /\ OnCycle(facTree, facName)) => <>Terminated)

\* a call that went round the cycle person -> person (or person -> pet -> person)
\* and returned
C7_Witness ==
    /\ op = "fromJS" /\ OnCycle(facTree, facName) /\ status = "returned"
    /\ depth >= 3
    /\ Field(obj, "master").t = "obj" \/ Field(obj, "pet").t = "arr"

----------------------------------------------------------------------------
(* C8 *)

----------------------------------------------------------------------------
(* fromJS as a function of its arguments *)

Thrown(kind) == [t |-> "throw", kind |-> kind]

RECURSIVE fromJSValue(_, _, _)
RECURSIVE ConvertFields(_, _, _, _)

\* the loop of lines 141-149 over the remaining keys, partial being the
\* working copy so far; a throw of a nested call ends it
ConvertFields(o, tree, keys, partial) ==
    IF keys = <<>> THEN partial
    ELSE IF o.t \in {"null", "undef"} THEN Thrown("TypeError")
    ELSE LET key == Head(keys).key
             fac == Head(keys).fac
             c == Field(o, key)
         IN  IF IsArray(c)
             THEN LET rs == [i \in 1..Len(c.e) |-> fromJSValue(c.e[i], tree, fac)]
                      bad == {i \in 1..Len(c.e) : rs[i].t = "throw"}
                  IN  IF bad # {}
                      THEN rs[CHOOSE i \in bad : \A j \in bad : i <= j]
                      ELSE ConvertFields(o, tree, Tail(keys), Obj(Put(partial.f, key, List(rs))))
             ELSE IF TypeofObject(c)
             THEN LET r == fromJSValue(c, tree, fac)
                  IN  IF r.t = "throw" THEN r
                      ELSE ConvertFields(o, tree, Tail(keys), Obj(Put(partial.f, key, r)))
             ELSE ConvertFields(o, tree, Tail(keys), partial)

\* fromJS(o, tree, name): the record returned, or what is thrown
fromJSValue(o, tree, name) ==
    IF name \notin DOMAIN tree THEN Thrown("TypeError")
    ELSE IF ~tree[name].factory.defined THEN Thrown("Error")
    ELSE LET partial == ConvertFields(o, tree, LoopKeys(tree[name], o), Merge(o))
         IN  IF partial.t = "throw" THEN partial
             ELSE TypedFactory(tree[name].factory.E, tree[name].factory.name, partial)

----------------------------------------------------------------------------
(* C6 *)

\* the descriptor entries of the root factory whose field is a template key
\* and holds an array in obj
ArrayFields ==
    {d \in {facTree[facName].descriptor.keys[i] :
                i \in 1..Len(facTree[facName].descriptor.keys)} :
        d.key \in DOMAIN facTree[facName].factory.E /\ IsArray(Field(obj, d.key))}

\* C6: a described field holding an array of n objects becomes, in the record
\* returned, a List of exactly n records in the order of the array, the i-th
\* being fromJS of the i-th entry with the factory name the descriptor gives
\* the field, a record of that factory and no plain object.
C6_ArrayBecomesOrderedList ==
    (RootFound /\ status = "returned" /\ facTree[facName].descriptor.defined) =>
        \A d \in ArrayFields :
            LET in == Field(obj, d.key).e
                out == Field(result, d.key)
            IN  /\ out.t = "list"
                /\ Len(out.e) = Len(in)
                /\ \A i \in 1..Len(in) :
                      /\ out.e[i] = fromJSValue(in[i], facTree, d.fac)
                      /\ out.e[i].t = "rec"
                      /\ out.e[i].n = facTree[d.fac].factory.name

\* a returned record whose pet field came from an array of two different objects
C6_Witness ==
    /\ RootFound /\ status = "returned" /\ facTree[facName].descriptor.defined
    /\ \E d \in ArrayFields :
          /\ Len(Field(obj, d.key).e) = 2
          /\ Field(obj, d.key).e[1] # Field(obj, d.key).e[2]
          /\ Field(result, d.key).e[1].f.name = Field(obj, d.key).e[1].f.name

----------------------------------------------------------------------------
(* C2 *)

RECURSIVE MatchesShape(_, _, _, _)
\* v has the shape the descriptor of name asks for: an object whose keys are
\* template keys (all: every template key too) and whose described fields
\* hold an object, or an array of objects, of the shape of the nested factory
MatchesShape(v, tree, name, all) ==
    /\ v.t = "obj"
    /\ name \in DOMAIN tree
    /\ tree[name].factory.defined
    /\ DOMAIN v.f \subseteq DOMAIN tree[name].factory.E
    /\ all => DOMAIN v.f = DOMAIN tree[name].factory.E
    /\ tree[name].descriptor.defined =>
          \A i \in 1..Len(tree[name].descriptor.keys) :
              LET d == tree[name].descriptor.keys[i]
                  c == Field(v, d.key)
              IN  \/ c.t = "obj" /\ MatchesShape(c, tree, d.fac, all)
                  \/ /\ c.t = "arr"
                     /\ \A j \in 1..Len(c.e) : MatchesShape(c.e[j], tree, d.fac, all)

\* C2: on an acyclic descriptor graph, for obj of exactly the descriptor's
\* shape whose keys are all template keys, fromJS returns a record whose toJS
\* deep-equals obj.
C2_RoundTrip ==
    (op = "fromJS" /\ Acyclic(facTree) /\ MatchesShape(obj, facTree, facName, FALSE)
        /\ Terminated)
        => (status = "returned" /\ toJS(result) = obj)

\* C2 (amended): the same, for obj that also holds every key of its template,
\* at every level: a template key obj leaves out comes back from toJS with
\* the template's default.
C2_RoundTripAllKeys ==
    (op = "fromJS" /\ Acyclic(facTree) /\ MatchesShape(obj, facTree, facName, TRUE)
        /\ Terminated)
        => (status = "returned" /\ toJS(result) = obj)

\* a round trip through a record holding a List of records that hold records
C2_Witness ==
    /\ op = "fromJS" /\ Acyclic(facTree) /\ MatchesShape(obj, facTree, facName, TRUE)
    /\ status = "returned" /\ depth = 3
    /\ Field(result, "pet").t = "list" /\ Len(Field(result, "pet").e) = 1
    /\ toJS(result) = obj /\ result # obj

----------------------------------------------------------------------------
(* C9 *)

\* C9: the constructor of makeTypedFactory(E, name), called with no value,
\* null or an object, returns a record with exactly E's keys in which each key
\* the argument holds has the argument's value and each other key E's default.
C9_DefaultFallback ==
    (op = "makeTypedFactory" /\ status = "returned") =>
        /\ result.t = "rec"
        /\ DOMAIN result.f = DOMAIN template
        /\ \A k \in DOMAIN template :
              result.f[k] = IF obj.t = "obj" /\ k \in DOMAIN obj.f THEN obj.f[k]
                            ELSE template[k]
        /\ obj \in {Undefined, Null} => toJS(result) = Obj(template)

\* a record built from a partial value: one key supplied, one defaulted
C9_Witness ==
    /\ op = "makeTypedFactory" /\ status = "returned" /\ obj.t = "obj"
    /\ \E k \in DOMAIN template : k \in DOMAIN obj.f /\ result.f[k] # template[k]
    /\ \E k \in DOMAIN template : k \notin DOMAIN obj.f /\ result.f[k] = template[k]

----------------------------------------------------------------------------
(* C10 *)

\* C10: recordify(E, val, name) returns what the constructor of
\* makeTypedFactory(E, name) returns for val, or for no argument when val is
\* absent or null; so recordify(E, null) equals recordify(E, E).
C10_RecordifyIsFactoryCall ==
    (op = "recordify" /\ status = "returned") =>
        /\ result = TypedFactory(template, "T", obj)
        /\ obj \in {Undefined, Null} => result = recordify(template, Obj(template), "T")
        /\ obj = Obj(template) => result = recordify(template, Null, "T")

\* recordify called with null, and with the template itself
C10_Witness ==
    /\ op = "recordify" /\ status = "returned"
    /\ obj = Null \/ obj = Obj(template)
    /\ toJS(result) = Obj(template)

====
